---- MODULE Spec2Model ----
(***************************************************************************)
(* Model of nyanpy/filetools.py (and its older copy meowmeow/filetools.py): *)
(* dir_to_file_list, create_directory_tree and the DirectoryTree class.     *)
(*                                                                          *)
(* A Python str is a sequence of one-character strings, so that splitext,   *)
(* endswith, the f-string of the duplicate counter and pathlib's suffix are *)
(* computed character by character.  A filesystem path is the sequence of   *)
(* its segments (each a str); the names of a TreeSpec are single segments,  *)
(* and os.path.join(dir, name) with a segment name appends the segment.     *)
(* The filesystem maps every existing path to "dir",                        *)
(* "empty" (a regular file of size 0) or "data" (a regular file with        *)
(* contents).                                                               *)
(***************************************************************************)
EXTENDS Integers, Sequences, FiniteSets, TLC

VARIABLES
    directory_structure,  \* the TreeSpec argument (same for every call)
    create_files,         \* the create_files argument
    fs,                   \* the filesystem: path -> "dir" | "empty" | "data"
    stack,                \* activation records of create_directory_tree
    counter,              \* __counter of the running top-level call
    path_tracker,         \* __path_tracker of the running top-level call
    pc,                   \* "idle" | "running" | "returned" | "raised" | ...
    err,                  \* the exception that ended the last call, or "none"
    result,               \* the value the last call returned
    calls,                \* number of top-level calls started
    visited,              \* loop iterations of the running call, in order
    fs0,                  \* the filesystem when the running call started
    prev,                 \* [result, fs] at the return of the previous call
    tree,                 \* the DirectoryTree object: [root_dir, dir]
    dir_path,             \* dir_to_file_list: the dir_path argument
    file_type,            \* dir_to_file_list: the file_type argument
    file_paths            \* dir_to_file_list: the returned list

vars == <<directory_structure, create_files, fs, stack, counter, path_tracker,
          pc, err, result, calls, visited, fs0, prev, tree, dir_path,
          file_type, file_paths>>

(***************************************************************************)
(* Bounds of the model.                                                     *)
(***************************************************************************)
MaxEntries == 3   \* entries of a TreeSpec, all nesting levels together
MaxCalls == 2     \* top-level create_directory_tree calls in a row

(***************************************************************************)
(* Python values.                                                           *)
(***************************************************************************)
None == <<"None">>            \* Python's None (no str is spelled like this)
EmptyDict == [k \in {} |-> <<>>]

\* d[k] = v on a dict
DictSet(d, k, v) == [x \in (DOMAIN d) \cup {k} |-> IF x = k THEN v ELSE d[x]]

\* d.update(other): the entries of other are written over those of d
DictUpdate(d, other) ==
    [x \in (DOMAIN d) \cup (DOMAIN other) |->
        IF x \in DOMAIN other THEN other[x] ELSE d[x]]

DigitChars == <<"0", "1", "2", "3", "4", "5", "6", "7", "8", "9">>

\* str(n) of a non-negative int, as the f-string formats it
RECURSIVE IntToStr(_)
IntToStr(n) ==
    IF n < 10 THEN <<DigitChars[n + 1]>>
    ELSE IntToStr(n \div 10) \o <<DigitChars[(n % 10) + 1]>>

\* s.rfind(c), 1-based: the last index of c in s, 0 when c is not in s
RFind(s, c) ==
    LET hits == {i \in 1..Len(s) : s[i] = c}
    IN  IF hits = {} THEN 0 ELSE CHOOSE i \in hits : \A j \in hits : j <= i

\* os.path.splitext(p): <<root, ext>>.  The extension starts at the last "."
\* of the last path component, unless only dots precede it there.
SplitExt(p) ==
    LET sepIndex == RFind(p, "/")
        dotIndex == RFind(p, ".")
    IN  IF /\ dotIndex > sepIndex
           /\ \E i \in (sepIndex + 1)..(dotIndex - 1) : p[i] # "."
        THEN <<SubSeq(p, 1, dotIndex - 1), SubSeq(p, dotIndex, Len(p))>>
        ELSE <<p, <<>>>>

\* s.endswith(suffix)
EndsWith(s, suffix) ==
    /\ Len(suffix) <= Len(s)
    /\ SubSeq(s, Len(s) - Len(suffix) + 1, Len(s)) = suffix

(***************************************************************************)
(* Paths and the filesystem.                                                *)
(***************************************************************************)
Root == << <<"r">> >>         \* the root_dir argument: one existing segment

Join(dir, name) == Append(dir, name)          \* os.path.join(dir, name)
Dirname(path) == SubSeq(path, 1, Len(path) - 1)   \* os.path.dirname(path)
Basename(path) == path[Len(path)]

Exists(f, p) == p \in DOMAIN f
IsDir(f, p) == Exists(f, p) /\ f[p] = "dir"
IsFile(f, p) == Exists(f, p) /\ f[p] \in {"empty", "data"}

\* the non-empty prefixes of a path: the path and its ancestors
Prefixes(p) == {SubSeq(p, 1, n) : n \in 1..Len(p)}

\* os.makedirs(p, exist_ok=...): creates p and the missing ancestors; a
\* regular file at p is FileExistsError, one at an ancestor is
\* NotADirectoryError; an existing directory is an error unless exist_ok.
MakedirsExistOk(f, p, exist_ok) ==
    IF \E q \in Prefixes(p) \ {p} : IsFile(f, q)
    THEN [err |-> "NotADirectoryError", fs |-> f]
    ELSE IF IsFile(f, p) \/ (IsDir(f, p) /\ ~exist_ok)
    THEN [err |-> "FileExistsError", fs |-> f]
    ELSE [err |-> "none",
          fs |-> [q \in (DOMAIN f) \cup Prefixes(p) |->
                    IF q \in DOMAIN f THEN f[q] ELSE "dir"]]

MakedirsNoReuse(f, p) == MakedirsExistOk(f, p, FALSE)

\* os.makedirs(p, exist_ok=True), as lines 228 and 234 call it
Makedirs(f, p) == MakedirsExistOk(f, p, TRUE)

\* with open(p, 'w'): pass -- creates or truncates the regular file p
OpenW(f, p) ==
    IF IsDir(f, p) THEN [err |-> "IsADirectoryError", fs |-> f]
    ELSE IF ~Exists(f, Dirname(p)) THEN [err |-> "FileNotFoundError", fs |-> f]
    ELSE IF ~IsDir(f, Dirname(p)) THEN [err |-> "NotADirectoryError", fs |-> f]
    ELSE [err |-> "none", fs |-> DictSet(f, p, "empty")]

(***************************************************************************)
(* TreeSpec values.  A key is a str or a (name, reference) tuple; a content *)
(* is None, a dict or (malformed) some other value.  A dict is the sequence *)
(* of its items in iteration order, its keys pairwise distinct.             *)
(***************************************************************************)
StrKey(s) == [isTuple |-> FALSE, first |-> s, second |-> <<>>]
TupleKey(n, u) == [isTuple |-> TRUE, first |-> n, second |-> u]

s_a == <<"a">>
s_a1 == <<"a", "_", "1">>
s_dot == <<".", "a">>
s_ext == <<"a", ".", "t">>

\* the keys of the model's TreeSpecs: two of them name the same segment "a",
\* the reference "a_1" is spelled like the disambiguated form of "a", ".a"
\* has a leading dot and "a.t" an extension
Keys == {StrKey(s_a), TupleKey(s_a, s_a1), StrKey(s_dot), StrKey(s_ext)}

Item(key, kind, items) == [key |-> key, kind |-> kind, items |-> items]

\* A TreeSpec written flat: its entries in the order a depth-first walk meets
\* them, each with its nesting depth.  Only a dict has entries below it, and
\* the keys of one dict are pairwise distinct.
Siblings(depth, i, j) ==
    /\ i < j
    /\ depth[i] = depth[j]
    /\ \A m \in (i + 1)..(j - 1) : depth[m] >= depth[i]

ValidShape(n, depth) ==
    /\ n > 0 => depth[1] = 0
    /\ \A i \in 1..(n - 1) : depth[i + 1] <= depth[i] + 1

ValidKinds(n, depth, kind) ==
    \A i \in 1..(n - 1) : depth[i + 1] = depth[i] + 1 => kind[i] = "dict"

ValidKeys(n, depth, key) ==
    \A i \in 1..n : \A j \in 1..n : Siblings(depth, i, j) => key[i] # key[j]

\* the nested dict of a flat TreeSpec whose first entry has depth d
RECURSIVE Nest(_, _)
Nest(nodes, d) ==
    IF nodes = <<>> THEN <<>>
    ELSE LET later == {i \in 2..Len(nodes) : nodes[i].depth <= d}
             stop == IF later = {} THEN Len(nodes) + 1
                     ELSE CHOOSE i \in later : \A j \in later : i <= j
         IN  <<Item(nodes[1].key, nodes[1].kind,
                    Nest(SubSeq(nodes, 2, stop - 1), d + 1))>>
             \o Nest(SubSeq(nodes, stop, Len(nodes)), d)

\* directory_structure is a TreeSpec of at most MaxEntries entries over keys
\* whose leaves have contents of the kinds in leaves
IsTreeSpec(keys, leaves) ==
    \E n \in 0..MaxEntries :
      \E depth \in [1..n -> 0..(n - 1)] :
        /\ ValidShape(n, depth)
        /\ \E kind \in [1..n -> leaves \cup {"dict"}] :
             /\ ValidKinds(n, depth, kind)
             /\ \E key \in [1..n -> keys] :
                  /\ ValidKeys(n, depth, key)
                  /\ directory_structure =
                        Nest([i \in 1..n |-> [key |-> key[i], kind |-> kind[i],
                                              depth |-> depth[i]]], 0)

(***************************************************************************)
(* create_directory_tree(root_dir, directory_structure, create_files,       *)
(*                       __counter=None, __path_tracker=None)               *)
(*                                                                          *)
(* One activation record per (recursive) call: its root_dir, the items of   *)
(* its directory_structure the for loop has not reached yet, and its local  *)
(* paths dict.  __counter and __path_tracker are the two dicts the          *)
(* top-level call creates and every recursive call receives.                *)
(***************************************************************************)
Frame(root_dir, items) ==
    [root_dir |-> root_dir, items |-> items, paths |-> EmptyDict]

\* lines 202-203: the top-level call is given no __counter and makes its own
InitialCounterKept(old) == old

InitialCounter(old) == EmptyDict

\* lines 217-222: the reference counter and the disambiguated reference
DisambiguateFromOne(cnt, unique_name) ==
    IF unique_name \in DOMAIN cnt
    THEN LET c == [cnt EXCEPT ![unique_name] = @ + 1]
             parts == SplitExt(unique_name)
         IN  [counter |-> c,
              unique_name |-> parts[1] \o <<"_">> \o IntToStr(c[unique_name] + 1)
                              \o parts[2]]
    ELSE [counter |-> DictSet(cnt, unique_name, 0), unique_name |-> unique_name]

Disambiguate(cnt, unique_name) ==
    IF unique_name \in DOMAIN cnt
    THEN LET c == [cnt EXCEPT ![unique_name] = @ + 1]
             parts == SplitExt(unique_name)
         IN  [counter |-> c,
              unique_name |-> parts[1] \o <<"_">> \o IntToStr(c[unique_name])
                              \o parts[2]]
    ELSE [counter |-> DictSet(cnt, unique_name, 0), unique_name |-> unique_name]

\* line 225 (unique_path), which the code computes and never uses
PathOfUnique(root_dir, name, unique_name) == Join(root_dir, unique_name)

\* line 224: the path that is created and registered
PathOf(root_dir, name, unique_name) == Join(root_dir, name)

\* a file entry whose file is never written
TouchNever(f, p, flag) == [err |-> "none", fs |-> f]

\* lines 235-237: the empty file of a file entry
Touch(f, p, flag) == IF flag THEN OpenW(f, p) ELSE [err |-> "none", fs |-> f]

\* lines 202-207 of the top-level call
Call ==
    /\ pc \in {"idle", "returned"}
    /\ calls < MaxCalls
    /\ calls' = calls + 1
    /\ pc' = "running"
    /\ counter' = InitialCounter(counter)
    /\ path_tracker' = EmptyDict
    /\ stack' = <<Frame(Root, directory_structure)>>
    /\ visited' = <<>>
    /\ fs0' = fs
    /\ prev' = [result |-> result, fs |-> fs]
    /\ err' = "none"
    /\ result' = None
    /\ UNCHANGED <<directory_structure, create_files, fs, tree, dir_path,
                   file_type, file_paths>>

\* an exception leaves every activation record
Raise(e, f, cnt) ==
    /\ pc' = "raised"
    /\ err' = e
    /\ fs' = f
    /\ counter' = cnt
    /\ stack' = <<>>
    /\ UNCHANGED <<path_tracker, visited>>

\* lines 208-239: one iteration of the for loop of the innermost call
Iterate ==
    /\ pc = "running"
    /\ stack # <<>>
    /\ stack[Len(stack)].items # <<>>
    /\ LET top == Len(stack)
           frame == stack[top]
           item == Head(frame.items)
           key == item.key
           name == key.first
           d == Disambiguate(counter,
                             IF key.isTuple THEN key.second ELSE key.first)
           unique_name == d.unique_name
           path == PathOf(frame.root_dir, name, unique_name)
           next == [frame EXCEPT !.items = Tail(@)]
           entry == [reference |-> IF key.isTuple THEN key.second ELSE key.first,
                     unique_name |-> unique_name, path |-> path,
                     kind |-> item.kind]
       IN  CASE item.kind = "dict" ->
                  LET m == Makedirs(fs, path)
                  IN  IF m.err # "none" THEN Raise(m.err, m.fs, d.counter)
                      ELSE /\ fs' = m.fs
                           /\ counter' = d.counter
                           /\ path_tracker' = DictSet(path_tracker, unique_name, path)
                           /\ stack' = SubSeq(stack, 1, top - 1) \o
                                  <<[next EXCEPT !.paths = DictSet(@, unique_name, path)],
                                    Frame(path, item.items)>>
                           /\ visited' = Append(visited, entry)
                           /\ UNCHANGED <<pc, err>>
             [] item.kind = "None" ->
                  LET m == Makedirs(fs, Dirname(path))
                      t == Touch(m.fs, path, create_files)
                  IN  IF m.err # "none" THEN Raise(m.err, m.fs, d.counter)
                      ELSE IF t.err # "none" THEN Raise(t.err, t.fs, d.counter)
                      ELSE /\ fs' = t.fs
                           /\ counter' = d.counter
                           /\ path_tracker' = DictSet(path_tracker, unique_name, path)
                           /\ stack' = [stack EXCEPT ![top] =
                                  [next EXCEPT !.paths = DictSet(@, unique_name, path)]]
                           /\ visited' = Append(visited, entry)
                           /\ UNCHANGED <<pc, err>>
             [] OTHER ->
                  /\ counter' = d.counter
                  /\ stack' = [stack EXCEPT ![top] = next]
                  /\ UNCHANGED <<fs, path_tracker, visited, pc, err>>
    /\ UNCHANGED <<directory_structure, create_files, result, calls, fs0, prev,
                   tree, dir_path, file_type, file_paths>>

\* line 241, and line 232 of the caller when the call was a recursive one
Return ==
    /\ pc = "running"
    /\ stack # <<>>
    /\ stack[Len(stack)].items = <<>>
    /\ LET top == Len(stack)
           paths == stack[top].paths
       IN  IF top = 1
           THEN /\ result' = paths
                /\ pc' = "returned"
                /\ stack' = <<>>
           ELSE /\ stack' = [SubSeq(stack, 1, top - 1) EXCEPT ![top - 1].paths =
                                DictUpdate(@, paths)]
                /\ UNCHANGED <<result, pc>>
    /\ UNCHANGED <<directory_structure, create_files, fs, counter, path_tracker,
                   err, calls, visited, fs0, prev, tree, dir_path, file_type,
                   file_paths>>

\* the filesystems a first call may find: nothing at all, or the root with a
\* regular file of some content named "a"
InitialFs ==
    {EmptyDict,
     [p \in {Root, Join(Root, s_a)} |-> IF p = Root THEN "dir" ELSE "data"]}

InitCommon ==
    /\ stack = <<>>
    /\ counter = EmptyDict
    /\ path_tracker = EmptyDict
    /\ pc = "idle"
    /\ err = "none"
    /\ result = None
    /\ calls = 0
    /\ visited = <<>>
    /\ prev = [result |-> None, fs |-> EmptyDict]
    /\ tree = None
    /\ dir_path = <<>>
    /\ file_type = None
    /\ file_paths = None

Init ==
    /\ IsTreeSpec(Keys, {"None"})
    /\ create_files \in BOOLEAN
    /\ fs \in InitialFs
    /\ fs0 = fs
    /\ InitCommon

Next == Call \/ Iterate \/ Return

Spec == Init /\ [][Next]_vars

\* the same calls on TreeSpecs that may hold a malformed content
InitMalformed ==
    /\ IsTreeSpec(Keys, {"None", "other"})
    /\ create_files = TRUE
    /\ fs = EmptyDict
    /\ fs0 = fs
    /\ InitCommon

SpecMalformed == InitMalformed /\ [][Next]_vars

(***************************************************************************)
(* class DirectoryTree.  Its dir is a dict whose iteration order             *)
(* create_directory_structure follows: a sequence of [key, path] in          *)
(* insertion order.                                                          *)
(***************************************************************************)
\* line 1: the names the module imports
ModuleGlobals == {"os"}

\* bool(x) of a str or None
Truthy(x) == x # None /\ x # <<>>

OrderedHas(d, k) == \E i \in 1..Len(d) : d[i].key = k

\* d[k] = v: a key the dict holds keeps its place
OrderedSet(d, k, v) ==
    IF OrderedHas(d, k)
    THEN [i \in 1..Len(d) |-> IF d[i].key = k THEN [key |-> k, path |-> v] ELSE d[i]]
    ELSE Append(d, [key |-> k, path |-> v])

\* d.update(other)
RECURSIVE OrderedUpdate(_, _)
OrderedUpdate(d, other) ==
    IF other = <<>> THEN d
    ELSE OrderedUpdate(OrderedSet(d, other[1].key, other[1].path), Tail(other))

\* lines 87-110: _define_by_dict of a DirectoryTree(root_dir, items), from
\* the paths gathered so far.  Line 95 is the first to look up Path.
RECURSIVE DefineByDict(_, _, _)
DefineByDict(root_dir, items, paths) ==
    IF items = <<>> THEN [err |-> "none", dir |-> paths]
    ELSE IF "Path" \notin ModuleGlobals THEN [err |-> "NameError", dir |-> paths]
    ELSE LET key == Head(items).key
             value == Head(items)
             folder_name == key.first
             unique_reference_name == IF key.isTuple THEN key.second ELSE None
             folder_path == Join(root_dir, folder_name)
             first == IF Truthy(unique_reference_name)
                      THEN OrderedSet(paths, unique_reference_name, folder_path)
                      ELSE paths
             sub == IF value.kind = "dict"
                    THEN DefineByDict(folder_path, value.items, <<>>)
                    ELSE [err |-> "none", dir |-> <<>>]
             merged == OrderedUpdate(first, sub.dir)
             last == IF Truthy(unique_reference_name)
                     THEN OrderedSet(merged, unique_reference_name, folder_path)
                     ELSE OrderedSet(merged, folder_name, folder_path)
         IN  IF sub.err # "none" THEN [err |-> sub.err, dir |-> paths]
             ELSE DefineByDict(root_dir, Tail(items), last)

\* pathlib: PurePath.suffix
Suffix(path) ==
    LET name == Basename(path)
        i == RFind(name, ".")
    IN  IF 1 < i /\ i < Len(name) THEN SubSeq(name, i, Len(name)) ELSE <<>>

\* line 153: path.mkdir(parents=True, exist_ok=True)
PathMkdir(f, p) == MakedirsExistOk(f, p, TRUE)

\* line 160: path.touch(exist_ok=True)
PathTouch(f, p) ==
    IF Exists(f, p) THEN [err |-> "none", fs |-> f]
    ELSE IF ~Exists(f, Dirname(p)) THEN [err |-> "FileNotFoundError", fs |-> f]
    ELSE IF ~IsDir(f, Dirname(p)) THEN [err |-> "NotADirectoryError", fs |-> f]
    ELSE [err |-> "none", fs |-> DictSet(f, p, "empty")]

\* lines 150-153: the loop that makes the directories
RECURSIVE MkdirLoop(_, _)
MkdirLoop(f, d) ==
    IF d = <<>> THEN [err |-> "none", fs |-> f]
    ELSE IF Suffix(d[1].path) = <<>>
    THEN LET m == PathMkdir(f, d[1].path)
         IN  IF m.err # "none" THEN m ELSE MkdirLoop(m.fs, Tail(d))
    ELSE MkdirLoop(f, Tail(d))

\* lines 157-160: the loop that makes the files
RECURSIVE TouchLoop(_, _)
TouchLoop(f, d) ==
    IF d = <<>> THEN [err |-> "none", fs |-> f]
    ELSE IF Suffix(d[1].path) # <<>>
    THEN LET t == PathTouch(f, d[1].path)
         IN  IF t.err # "none" THEN t ELSE TouchLoop(t.fs, Tail(d))
    ELSE TouchLoop(f, Tail(d))

\* lines 60-66: DirectoryTree(root_dir, directory_structure_definition)
Construct ==
    /\ pc = "idle"
    /\ LET d == DefineByDict(Root, directory_structure, <<>>)
       IN  IF d.err # "none"
           THEN /\ pc' = "raised"
                /\ err' = d.err
                /\ UNCHANGED tree
           ELSE /\ pc' = "constructed"
                /\ tree' = [root_dir |-> Root, dir |-> d.dir]
                /\ UNCHANGED err
    /\ UNCHANGED <<directory_structure, create_files, fs, stack, counter,
                   path_tracker, result, calls, visited, fs0, prev, dir_path,
                   file_type, file_paths>>

\* lines 138-160: tree.create_directory_structure(create_files)
CreateDirectoryStructure ==
    /\ pc = "constructed"
    /\ LET m == MkdirLoop(fs, tree.dir)
           t == IF create_files THEN TouchLoop(m.fs, tree.dir)
                ELSE [err |-> "none", fs |-> m.fs]
       IN  IF m.err # "none"
           THEN pc' = "raised" /\ err' = m.err /\ fs' = m.fs
           ELSE IF t.err # "none"
           THEN pc' = "raised" /\ err' = t.err /\ fs' = t.fs
           ELSE pc' = "created" /\ fs' = t.fs /\ UNCHANGED err
    /\ UNCHANGED <<directory_structure, create_files, stack, counter,
                   path_tracker, result, calls, visited, fs0, prev, tree,
                   dir_path, file_type, file_paths>>

InitFacade ==
    /\ IsTreeSpec(Keys, {"None"})
    /\ create_files \in BOOLEAN
    /\ fs \in InitialFs
    /\ fs0 = fs
    /\ InitCommon

NextFacade == Construct \/ CreateDirectoryStructure

SpecFacade == InitFacade /\ [][NextFacade]_vars

(***************************************************************************)
(* dir_to_file_list(dir_path, file_type=None)                               *)
(***************************************************************************)
\* os.listdir(p): the names directly inside the directory p, in some order
ListdirNames(f, p) == {Basename(q) : q \in {x \in DOMAIN f : Len(x) > 1 /\ Dirname(x) = p}}

Orders(names) ==
    {order \in [1..Cardinality(names) -> names] :
        \A i \in 1..Cardinality(names) : \A j \in 1..Cardinality(names) :
            order[i] = order[j] => i = j}

\* a filter that keeps every entry of the wanted type, directories too
KeepAnyKind(f, folder_path, file, ftype) ==
    ftype = None \/ EndsWith(file, ftype)

\* line 24: the condition of the comprehension
Keep(f, folder_path, file, ftype) ==
    /\ IsFile(f, Join(folder_path, file))       \* os.path.isfile
    /\ (ftype = None \/ EndsWith(file, ftype))

RECURSIVE Comprehension(_, _, _, _)
Comprehension(f, folder_path, listing, ftype) ==
    IF listing = <<>> THEN <<>>
    ELSE (IF Keep(f, folder_path, Head(listing), ftype)
          THEN <<Join(folder_path, Head(listing))>> ELSE <<>>)
         \o Comprehension(f, folder_path, Tail(listing), ftype)

\* lines 20-27 (meowmeow/filetools.py lines 5-8 when file_type is None)
DirToFileList ==
    /\ pc = "idle"
    /\ IF ~Exists(fs, dir_path)
       THEN pc' = "raised" /\ err' = "FileNotFoundError" /\ UNCHANGED file_paths
       ELSE IF ~IsDir(fs, dir_path)
       THEN pc' = "raised" /\ err' = "NotADirectoryError" /\ UNCHANGED file_paths
       ELSE /\ \E listing \in Orders(ListdirNames(fs, dir_path)) :
                 file_paths' = Comprehension(fs, dir_path, listing, file_type)
            /\ pc' = "listed"
            /\ UNCHANGED err
    /\ UNCHANGED <<directory_structure, create_files, fs, stack, counter,
                   path_tracker, result, calls, visited, fs0, prev, tree,
                   dir_path, file_type>>

ListNames == {s_a, s_ext, <<"t">>}

\* the disks listed: under the root each name is absent, a regular file or a
\* directory, and the directory "a" may hold a file "a.t" of its own
ListFs(state, nested) ==
    LET top == {Join(Root, n) : n \in {m \in ListNames : state[m] # "absent"}}
        deep == IF nested /\ state[s_a] = "dir"
                THEN {Join(Join(Root, s_a), s_ext)} ELSE {}
    IN  [p \in {Root} \cup top \cup deep |->
            IF p = Root THEN "dir"
            ELSE IF p \in deep THEN "data"
            ELSE state[Basename(p)]]

InitList ==
    /\ \E state \in [ListNames -> {"absent", "empty", "data", "dir"}] :
         \E nested \in BOOLEAN :
            fs = ListFs(state, nested)
    /\ fs0 = fs
    /\ dir_path \in {Root, Join(Root, s_a), Join(Root, s_a1)}
    /\ file_type \in {None, <<".", "t">>, <<"t">>}
    /\ directory_structure = <<>>
    /\ create_files = FALSE
    /\ stack = <<>>
    /\ counter = EmptyDict
    /\ path_tracker = EmptyDict
    /\ pc = "idle"
    /\ err = "none"
    /\ result = None
    /\ calls = 0
    /\ visited = <<>>
    /\ prev = [result |-> None, fs |-> EmptyDict]
    /\ tree = None
    /\ file_paths = None

NextList == DirToFileList

SpecList == InitList /\ [][NextList]_vars

(***************************************************************************)
(* The TreeSpec as the claims read it: its entries in depth-first mapping   *)
(* order, each with its reference, its content kind and the chain of        *)
(* on-disk names from the root down to it.                                  *)
(***************************************************************************)
RECURSIVE Entries(_, _)
Entries(items, dir) ==
    IF items = <<>> THEN <<>>
    ELSE LET e == Head(items)
             p == Append(dir, e.key.first)
         IN  <<[reference |-> IF e.key.isTuple THEN e.key.second ELSE e.key.first,
                kind |-> e.kind, path |-> p]>>
             \o Entries(e.items, p) \o Entries(Tail(items), dir)

E == Entries(directory_structure, Root)

\* how many entries of e before the i-th carry the i-th entry's reference
Earlier(e, i) == Cardinality({j \in 1..(i - 1) : e[j].reference = e[i].reference})

\* the last entry registered under the key of the i-th
LastUnderKey(i) ==
    \A m \in (i + 1)..Len(visited) : visited[m].unique_name # visited[i].unique_name

Returned == pc = "returned"

(***************************************************************************)
(* C1.                                                                      *)
(***************************************************************************)
\* stem and extension as the claim words them: split at the last "."
SplitAtLastDot(r) ==
    LET dot == RFind(r, ".")
    IN  IF dot = 0 THEN <<r, <<>>>>
        ELSE <<SubSeq(r, 1, dot - 1), SubSeq(r, dot, Len(r))>>

\* as amended: a "." that only dots (or nothing) precede starts no extension
SplitAtLastInnerDot(r) ==
    LET dot == RFind(r, ".")
    IN  IF dot > 0 /\ \E i \in 1..(dot - 1) : r[i] # "."
        THEN <<SubSeq(r, 1, dot - 1), SubSeq(r, dot, Len(r))>>
        ELSE <<r, <<>>>>

Suffixed(parts, k) == parts[1] \o <<"_">> \o IntToStr(k) \o parts[2]

DepthFirst(e, i) ==
    /\ i <= Len(e)
    /\ visited[i].reference = e[i].reference
    /\ visited[i].path = e[i].path

\* C1 as claimed: entries are visited depth-first in mapping order with one
\* counter for the whole tree; the first entry with reference r is registered
\* under r and the (k+1)-th under stem_k + extension, the extension being the
\* substring of r from its last "." onward.
C1_AsClaimed ==
    LET e == E IN
    \A i \in 1..Len(visited) :
        /\ DepthFirst(e, i)
        /\ visited[i].unique_name =
              IF Earlier(e, i) = 0 THEN e[i].reference
              ELSE Suffixed(SplitAtLastDot(e[i].reference), Earlier(e, i))

\* C1 as amended: the same, the extension being empty when nothing but dots
\* precedes the last "." of the reference (os.path.splitext).
C1_SharedCounterKeys ==
    LET e == E IN
    \A i \in 1..Len(visited) :
        /\ DepthFirst(e, i)
        /\ visited[i].unique_name =
              IF Earlier(e, i) = 0 THEN e[i].reference
              ELSE Suffixed(SplitAtLastInnerDot(e[i].reference), Earlier(e, i))

C1_Witness ==
    LET e == E IN
    /\ Returned
    /\ \E i \in 1..Len(visited) : \E j \in 1..(i - 1) :
          /\ visited[i].unique_name = <<"a", "_", "1", ".", "t">>
          /\ e[j].reference = e[i].reference
          /\ Len(e[j].path) # Len(e[i].path)

C1_WitnessThird ==
    LET e == E IN
    /\ Returned
    /\ \E i \in 1..Len(visited) :
          Earlier(e, i) = 2 /\ visited[i].unique_name = <<"a", "_", "2">>

(***************************************************************************)
(* C2.                                                                      *)
(***************************************************************************)
\* C2: the returned registry holds one entry per folder and file entry of
\* the spec, the disambiguated keys being pairwise distinct.
C2_OneKeyPerEntry ==
    LET e == E IN
    Returned => Cardinality(DOMAIN result) = Len(e)

(***************************************************************************)
(* C3.                                                                      *)
(***************************************************************************)
CreatedPaths == (DOMAIN fs) \ (DOMAIN fs0)

ExampleSpec ==
    <<Item(StrKey(s_a), "dict", <<Item(StrKey(s_ext), "None", <<>>)>>)>>

\* C3: every registry value is the root joined with the chain of on-disk
\* names down to the entry registered under that key, and no path is created
\* on disk but those chains and their ancestors; {"a": {"a.t": None}} gives
\* {"a": root/a, "a.t": root/a/a.t}, directory root/a and file root/a/a.t.
C3_PhysicalPaths ==
    LET e == E IN
    Returned =>
        /\ \A i \in 1..Len(visited) :
              /\ i <= Len(e)
              /\ visited[i].unique_name \in DOMAIN result
              /\ LastUnderKey(i) => result[visited[i].unique_name] = e[i].path
        /\ \A k \in DOMAIN result :
              \E i \in 1..Len(visited) : visited[i].unique_name = k
        /\ CreatedPaths \subseteq UNION {Prefixes(e[i].path) : i \in 1..Len(e)}
        /\ (directory_structure = ExampleSpec /\ create_files /\ fs0 = EmptyDict) =>
              /\ result = [k \in {s_a, s_ext} |->
                             IF k = s_a THEN <<Root[1], s_a>>
                             ELSE <<Root[1], s_a, s_ext>>]
              /\ fs = [p \in {Root, <<Root[1], s_a>>, <<Root[1], s_a, s_ext>>} |->
                         IF Len(p) = 3 THEN "empty" ELSE "dir"]

C3_Witness ==
    /\ Returned
    /\ directory_structure = ExampleSpec
    /\ create_files
    /\ fs0 = EmptyDict

C3_WitnessRenamed ==
    LET e == E IN
    /\ Returned
    /\ \E i \in 1..Len(visited) :
          /\ visited[i].unique_name # visited[i].reference
          /\ Len(visited[i].path) > Len(Root) + 1

(***************************************************************************)
(* C4.                                                                      *)
(***************************************************************************)
\* C4: a second call with the same root and spec raises nothing, starts from
\* an empty counter and registry, returns the registry the first call
\* returned and leaves the disk as the first call left it.
C4_Idempotent ==
    /\ pc = "raised" => calls = 1
    /\ (pc = "running" /\ visited = <<>>) =>
          (counter = EmptyDict /\ path_tracker = EmptyDict)
    /\ (Returned /\ calls >= 2) => (result = prev.result /\ fs = prev.fs)

C4_Witness ==
    LET e == E IN
    /\ Returned
    /\ calls = 2
    /\ create_files
    /\ \E i \in 1..Len(visited) : visited[i].unique_name # visited[i].reference
    /\ \E i \in 1..Len(visited) : visited[i].kind = "None"
    /\ \E i \in 1..Len(visited) : visited[i].kind = "dict"

(***************************************************************************)
(* C5.                                                                      *)
(***************************************************************************)
\* C5: after a call with create_files=True that returns, every registry
\* value of a folder entry is a directory on disk and every registry value of
\* a file entry is a regular file on disk.
C5_RoundTrip ==
    LET e == E IN
    (Returned /\ create_files) =>
        \A k \in DOMAIN result : \A i \in 1..Len(e) :
            e[i].path = result[k] =>
                /\ e[i].kind = "dict" => IsDir(fs, result[k])
                /\ e[i].kind = "None" => IsFile(fs, result[k])

C5_Witness ==
    LET e == E IN
    /\ Returned
    /\ create_files
    /\ calls = 1
    /\ \E i \in 1..Len(e) : e[i].kind = "None" /\ Len(e[i].path) > Len(Root) + 1
    /\ \E i \in 1..Len(directory_structure) :
          directory_structure[i].kind = "dict" /\ directory_structure[i].items = <<>>

(***************************************************************************)
(* C6.                                                                      *)
(***************************************************************************)
\* C6: with create_files=False on a disk that holds none of the spec's
\* paths, every folder entry's directory and every file entry's parent
\* directory is created, no regular file is created, and the registry still
\* holds an entry for every file entry.
C6_DirectoriesOnly ==
    LET e == E IN
    (Returned /\ ~create_files /\ calls = 1 /\ fs0 = EmptyDict) =>
        /\ \A i \in 1..Len(e) :
              /\ e[i].kind = "dict" => IsDir(fs, e[i].path)
              /\ e[i].kind = "None" => IsDir(fs, Dirname(e[i].path))
        /\ \A p \in DOMAIN fs : ~IsFile(fs, p)
        /\ \A i \in 1..Len(e) :
              e[i].kind = "None" => \E k \in DOMAIN result : result[k] = e[i].path

(***************************************************************************)
(* C10.                                                                     *)
(***************************************************************************)
SamePath(e, i, j) == i < j /\ j <= Len(e) /\ e[i].path = e[j].path

Collision(e) == \E i \in 1..Len(e) : \E j \in 1..Len(e) : SamePath(e, i, j)

MixedCollision(e) ==
    \E i \in 1..Len(e) : \E j \in 1..Len(e) :
        SamePath(e, i, j) /\ e[i].kind # e[j].kind

C10_WitnessFiles ==
    LET e == E IN
    /\ Returned
    /\ create_files
    /\ \E i \in 1..Len(e) : \E j \in 1..Len(e) :
          SamePath(e, i, j) /\ e[i].kind = "None" /\ e[j].kind = "None"

(***************************************************************************)
(* C7.                                                                      *)
(***************************************************************************)
\* C7: a spec entry whose content is neither None nor a mapping makes the
\* call fail with a validation error; it is never skipped and leaves no
\* trace in the reference counter.
C7_MalformedRejected ==
    LET e == E IN
    /\ Returned => \A i \in 1..Len(e) : e[i].kind # "other"
    /\ \A r \in DOMAIN counter :
          \E i \in 1..Len(e) : e[i].reference = r /\ e[i].kind # "other"

(***************************************************************************)
(* C8.                                                                      *)
(***************************************************************************)
HasSuffix(name, ext) ==
    \E n \in 0..Len(name) : name = SubSeq(name, 1, n) \o ext

Listed == {file_paths[i] : i \in 1..Len(file_paths)}

\* C8: the list holds exactly the full paths of the entries directly inside
\* the directory that are regular files and, when an extension is given,
\* whose name ends with it; each once; and the disk is left as it was.
C8_DirectFilesOnly ==
    /\ pc = "listed" =>
          /\ Listed = {p \in DOMAIN fs0 :
                         /\ Len(p) = Len(dir_path) + 1
                         /\ SubSeq(p, 1, Len(dir_path)) = dir_path
                         /\ fs0[p] \in {"empty", "data"}
                         /\ file_type # None => HasSuffix(p[Len(p)], file_type)}
          /\ Cardinality(Listed) = Len(file_paths)
    /\ fs = fs0

C8_Witness ==
    /\ pc = "listed"
    /\ file_type = <<".", "t">>
    /\ dir_path = Root
    /\ file_paths = <<Join(Root, s_ext)>>
    /\ IsDir(fs, Join(Root, s_a))
    /\ IsFile(fs, Join(Join(Root, s_a), s_ext))
    /\ IsFile(fs, Join(Root, <<"t">>))

(***************************************************************************)
(* C9.                                                                      *)
(***************************************************************************)
\* C9: constructing DirectoryTree(root, spec) resolves the mapping without
\* touching the disk, and create_directory_structure then makes the
\* directories (and, when asked, the files) of the mapping; neither raises
\* for a well-formed spec.
C9_FacadeNeverRaises ==
    LET e == E IN
    /\ pc # "raised"
    /\ pc = "constructed" =>
          /\ fs = fs0
          /\ \A i \in 1..Len(e) : \E j \in 1..Len(tree.dir) : tree.dir[j].path = e[i].path
    /\ pc = "created" =>
          \A j \in 1..Len(tree.dir) :
              /\ Suffix(tree.dir[j].path) = <<>> => IsDir(fs, tree.dir[j].path)
              /\ Suffix(tree.dir[j].path) # <<>> =>
                    (create_files <=> IsFile(fs, tree.dir[j].path))

====
